---- MODULE Spec2Model ----
(***************************************************************************)
(* The REST backend of the ordering site (Express + Mongoose): the         *)
(* connection middleware, the three collections MenuItem, Cart and Order,  *)
(* and the route handlers that read and write them.                        *)
(*                                                                         *)
(* A request is served in steps.  Every `await` of a handler is a point    *)
(* where the handlers of other requests may run, so each action below is   *)
(* the synchronous code of a handler up to the store operation it awaits,  *)
(* that operation as the store executes it, and the code that follows it   *)
(* up to the next await or the response.  The route and the body of a      *)
(* request are first read by its route handler, so they are drawn in the   *)
(* handler's first step.  Every store operation takes an input `up`: the   *)
(* store executes it (TRUE) or it throws because the store cannot be       *)
(* reached (FALSE), and the handler's catch answers.                       *)
(*                                                                         *)
(* Documents keep the fields the handlers decide on: a Cart is             *)
(* [id, sessionId, items], an Order is [id, items, status], a MenuItem is  *)
(* [id, available].  Timestamps (lastUpdated, orderDate, createdAt),       *)
(* customerInfo, notes and the descriptive MenuItem fields are written but *)
(* never read by the server and are left out.  An items list is the        *)
(* sequence of its item names.                                             *)
(***************************************************************************)
EXTENDS Integers, Sequences, FiniteSets, TLC

(* ------------------------------ bounds --------------------------------- *)
\* longest items list a request carries
MaxItems == 1
\* most Order documents stored at a time
MaxOrders == 2
\* most MenuItem documents stored at a time
MaxMenu == 1
\* largest quantity of an entry of the local cart
MaxQty == 2

\* requests that can be in flight together
Reqs == {"r1", "r2"}
\* the slot used where requests are served one after the other
OneReq == {"r1"}
\* session identifiers callers use
SessionSeq == <<"s1", "s2">>
Sessions == {SessionSeq[i] : i \in 1..Len(SessionSeq)}
\* item names
Items == {"Fries"}
\* names of the menu items the client can put in its cart
Names == {"Fries", "Shakes"}

(* --------------------------- value domains ----------------------------- *)
\* a sessionId that is absent (undefined) or empty: falsy in `if (sessionId)`
NoSession == ""
\* a status that the body does not carry (undefined)
NoStatus == "undefined"
\* no document (null)
NoId == 0
\* an identifier that is not a well-formed ObjectId: the query cast throws
BadId == 0 - 1

RECURSIVE SeqsUpTo(_, _)
SeqsUpTo(S, n) ==
    IF n = 0 THEN {<<>>}
    ELSE LET shorter == SeqsUpTo(S, n - 1)
         IN  shorter \cup {Append(s, x) : s \in shorter, x \in S}

ItemLists == SeqsUpTo(Items, MaxItems)

\* identifiers the store can hand out: enough for the stored documents and
\* the ones the requests in flight still refer to.  The Carts of a session
\* draw theirs from a range of the session's own.
SessionNo(sid) == CHOOSE i \in 1..Len(SessionSeq) : SessionSeq[i] = sid
CartIds(sid) ==
    {SessionNo(sid) + Len(SessionSeq) * k : k \in 0..(Cardinality(Reqs) + 1)}
OrderIds == 1..(MaxOrders + Cardinality(Reqs))
MenuIds == 1..(MaxMenu + Cardinality(Reqs))

\* the names of the menuItems array of the seed route
SeedNames == <<"Double-Double Burger", "Cheeseburger", "French Fries", "Shakes">>
\* the name in the body of a menu create
BodyName == "Animal Fries"
\* identifiers for the documents the seed route inserts: enough for the
\* seed requests that can be in flight together
SeedIds ==
    (MaxMenu + Cardinality(Reqs) + 1)
        ..(MaxMenu + Cardinality(Reqs) + Cardinality(Reqs) * Len(SeedNames))

\* the enum with one value more
validStatusesLax ==
    {"pending", "confirmed", "preparing", "ready", "delivered", "cancelled", "shipped"}

\* validStatuses of the status route (and the enum of orderSchema)
validStatuses ==
    {"pending", "confirmed", "preparing", "ready", "delivered", "cancelled"}

\* status values a body may carry: the enum, one value outside it, none
BodyStatuses == validStatuses \cup {"shipped", NoStatus}
\* status values tried in the body of an order-create
CreateStatuses == {NoStatus, "delivered"}

VARIABLES
    cachedConnection,   \* the module-level handle: TRUE once a connect resolved
    menu,               \* the MenuItem collection
    carts,              \* the Cart collection
    orders,             \* the Order collection
    req,                \* the requests in flight, and their responses
    cart,               \* the client's local cart (the cart state of App)
    net,                \* the client's fetches that have not returned
    alert,              \* the last alert(...) the client has shown
    pushFailed          \* history: a push of the cart has not succeeded

vars == <<cachedConnection, menu, carts, orders, req, cart, net, alert, pushFailed>>
\* the state of the client, and the history of its pushes
client == <<cart, net, alert, pushFailed>>

(* ------------------------------ requests ------------------------------- *)
\* a request slot: where the request is (pc), its route (kind), what its
\* body and path carry (sid, has: the body has items, items, price: the body
\* has totalPrice, status, id), the handler's locals (doc: the document it
\* constructed or wrote, found: the Cart a query returned) and the response
\* (code, err: the error reported, out: the items or document in the body)
Idle ==
    [pc |-> "idle", kind |-> "none", sid |-> NoSession, has |-> FALSE,
     items |-> <<>>, price |-> FALSE, status |-> NoStatus, id |-> NoId,
     doc |-> NoId, found |-> NoId, code |-> 0, err |-> "none", out |-> <<>>]

Call(kind, sid, has, items, price, status, id) ==
    [Idle EXCEPT !.pc = "ready", !.kind = kind, !.sid = sid, !.has = has,
                 !.items = items, !.price = price, !.status = status, !.id = id]

\* res.status(code).json(...)
Reply(c, code, err, out) ==
    [c EXCEPT !.pc = "done", !.code = code, !.err = err, !.out = out]

\* responses not yet taken by their callers.  A caller takes the response
\* (Recycle) before the store executes the next operation: taking a response
\* touches nothing the server holds, so this fixes the order of two
\* independent steps and removes no behaviour of the server.
Unread == {q \in Reqs : req[q].pc = "done"}

\* a fetch of the client: the route it calls (op) and the items its body
\* carries; NoFetch when the slot carries none
NoFetch == [op |-> "none", items |-> <<>>]

(* ------------------------------ the store ------------------------------ *)
CartsOf(cs, sid) == {d \in cs : d.sessionId = sid}

\* new ObjectId(): an identifier that no document and no request refers to
\* (the least one; any other unused one would do)
CartIdsInUse ==
    {d.id : d \in carts}
        \cup {req[r].doc : r \in {q \in Reqs : req[q].kind \in {"cartGet", "cartPost"}}}
        \cup {req[r].found : r \in Reqs}
OrderIdsInUse ==
    {o.id : o \in orders} \cup {req[r].doc : r \in {q \in Reqs : req[q].kind = "orderCreate"}}
MenuIdsInUse ==
    {m.id : m \in menu} \cup {req[r].doc : r \in {q \in Reqs : req[q].kind = "menuCreate"}}

Least(S) == CHOOSE x \in S : \A y \in S : x <= y

\* a collection without the unique index
UniqueOKNone(cs, sid) == TRUE

\* the unique index on Cart.sessionId: an insert is accepted only when no
\* stored Cart has the sessionId
UniqueOK(cs, sid) == CartsOf(cs, sid) = {}

NewCart(id, sid, items) == [id |-> id, sessionId |-> sid, items |-> items]

Init ==
    /\ cachedConnection = FALSE
    /\ menu = {}
    /\ carts = {}
    /\ orders = {}
    /\ req = [r \in Reqs |-> Idle]
    /\ cart = <<>>
    /\ net = [r \in Reqs |-> NoFetch]
    /\ alert = "none"
    /\ pushFailed = FALSE

(* ----------------------- connection middleware ------------------------- *)
\* a request arrives: the middleware calls connectToDatabase(), which
\* returns the cached handle or starts mongoose.connect
Arrive(r) ==
    /\ req[r].pc = "idle"
    /\ req' = [req EXCEPT ![r] =
                 [Idle EXCEPT !.pc = IF cachedConnection THEN "ready" ELSE "connecting"]]
    /\ UNCHANGED <<cachedConnection, menu, carts, orders>>
    /\ UNCHANGED client

\* mongoose.connect settles: the handle is cached and next() runs, or the
\* middleware answers 500
ConnectSettles(r, up) ==
    /\ req[r].pc = "connecting"
    /\ Unread = {}
    /\ IF up
       THEN /\ cachedConnection' = TRUE
            /\ req' = [req EXCEPT ![r].pc = "ready"]
       ELSE /\ cachedConnection' = cachedConnection
            /\ req' = [req EXCEPT ![r] = Reply(req[r], 500, "connect", <<>>)]
    /\ UNCHANGED <<menu, carts, orders>>
    /\ UNCHANGED client

\* the caller takes the response
Recycle(r) ==
    /\ req[r].pc = "done"
    /\ req' = [req EXCEPT ![r] = Idle]
    /\ UNCHANGED <<cachedConnection, menu, carts, orders>>
    /\ UNCHANGED client

Middleware(r, up) ==
    \/ Arrive(r)
    \/ ConnectSettles(r, up)
    \/ Recycle(r)

(* ------------------------------ cart routes ---------------------------- *)
\* a new Cart that is not empty
EmptyCartSeeded(id, sid) == NewCart(id, sid, <<"Fries">>)

\* new Cart({ sessionId, items: [] }) of the cart-get route
EmptyCart(id, sid) == NewCart(id, sid, <<>>)

\* GET /api/cart/:sessionId, up to the response or to cart.save()
CartGetFind(r, sid, up) ==
    /\ req[r].pc = "ready"
    /\ Unread = {}
    /\ LET c == Call("cartGet", sid, FALSE, <<>>, FALSE, NoStatus, NoId)
       IN  IF ~up
           THEN req' = [req EXCEPT ![r] = Reply(c, 500, "down", <<>>)]
           ELSE IF CartsOf(carts, sid) # {}
           THEN \E d \in CartsOf(carts, sid) :
                    req' = [req EXCEPT ![r] =
                              Reply([c EXCEPT !.found = d.id], 200, "none", d.items)]
           ELSE req' = [req EXCEPT ![r] = [c EXCEPT !.pc = "save"]]
    /\ UNCHANGED <<cachedConnection, menu, carts, orders>>
    /\ UNCHANGED client

\* cart.save() of the cart-get route: the insert of the new empty Cart
CartGetSave(r, up) ==
    /\ req[r].pc = "save"
    /\ req[r].kind = "cartGet"
    /\ Unread = {}
    /\ LET c == req[r]
       IN  IF ~up
           THEN /\ req' = [req EXCEPT ![r] = Reply(c, 500, "down", <<>>)]
                /\ carts' = carts
           ELSE IF ~UniqueOK(carts, c.sid)
           THEN /\ req' = [req EXCEPT ![r] = Reply(c, 500, "duplicate", <<>>)]
                /\ carts' = carts
           ELSE /\ CartIds(c.sid) \ CartIdsInUse # {}
                /\ LET d == EmptyCart(Least(CartIds(c.sid) \ CartIdsInUse), c.sid)
                   IN  /\ carts' = carts \cup {d}
                       /\ req' = [req EXCEPT ![r] = Reply([c EXCEPT !.doc = d.id], 200, "none", d.items)]
    /\ UNCHANGED <<cachedConnection, menu, orders>>
    /\ UNCHANGED client

\* POST /api/cart/:sessionId, up to cart.save(): the Cart found is kept in
\* found; the identifier of a Cart constructed because none was found is
\* recorded in doc when it is inserted
CartPostFind(r, sid, items, up) ==
    /\ req[r].pc = "ready"
    /\ Unread = {}
    /\ LET c == Call("cartPost", sid, TRUE, items, FALSE, NoStatus, NoId)
       IN  IF ~up
           THEN req' = [req EXCEPT ![r] = Reply(c, 400, "down", <<>>)]
           ELSE IF CartsOf(carts, sid) # {}
           THEN \E d \in CartsOf(carts, sid) :
                    req' = [req EXCEPT ![r] = [c EXCEPT !.pc = "save", !.found = d.id]]
           ELSE req' = [req EXCEPT ![r] = [c EXCEPT !.pc = "save"]]
    /\ UNCHANGED <<cachedConnection, menu, carts, orders>>
    /\ UNCHANGED client

\* a save that appends to the items stored
SavedItemsMerged(old, posted) == old \o posted

\* cart.items = req.body.items : the items a found Cart is saved with
SavedItems(old, posted) == posted

\* cart.save() of the cart-post route: the insert of a constructed Cart, or
\* the update of the found one by its _id, which throws when the document is
\* no longer stored
CartPostSave(r, up) ==
    /\ req[r].pc = "save"
    /\ req[r].kind = "cartPost"
    /\ Unread = {}
    /\ LET c == req[r]
           stored == {d \in carts : d.id = c.found}
       IN  IF ~up
           THEN /\ req' = [req EXCEPT ![r] = Reply(c, 400, "down", <<>>)]
                /\ carts' = carts
           ELSE IF c.found = NoId
           THEN IF ~UniqueOK(carts, c.sid)
                THEN /\ req' = [req EXCEPT ![r] = Reply(c, 400, "duplicate", <<>>)]
                     /\ carts' = carts
                ELSE /\ CartIds(c.sid) \ CartIdsInUse # {}
                     /\ LET d == NewCart(Least(CartIds(c.sid) \ CartIdsInUse), c.sid, c.items)
                        IN  /\ carts' = carts \cup {d}
                            /\ req' = [req EXCEPT ![r] = Reply([c EXCEPT !.doc = d.id], 200, "none", d.items)]
           ELSE IF stored = {}
                THEN /\ req' = [req EXCEPT ![r] = Reply(c, 400, "gone", <<>>)]
                     /\ carts' = carts
                ELSE \E d \in stored :
                       LET items == SavedItems(d.items, c.items)
                       IN  /\ carts' = (carts \ {d}) \cup {[d EXCEPT !.items = items]}
                           /\ req' = [req EXCEPT ![r] = Reply(c, 200, "none", items)]
    /\ UNCHANGED <<cachedConnection, menu, orders>>
    /\ UNCHANGED client

\* Cart.findOneAndDelete({ sessionId }): the collections it can leave and the
\* document it returns (null when none matches); it removes one document
DeleteOneCart(cs, sid) ==
    IF CartsOf(cs, sid) = {}
    THEN {<<cs, NoId>>}
    ELSE {<<cs \ {d}, d.id>> : d \in CartsOf(cs, sid)}

\* DELETE /api/cart/:sessionId : the document returned is not looked at
CartDelete(r, sid, up) ==
    /\ req[r].pc = "ready"
    /\ Unread = {}
    /\ LET c == Call("cartDelete", sid, FALSE, <<>>, FALSE, NoStatus, NoId)
       IN  IF ~up
           THEN /\ req' = [req EXCEPT ![r] = Reply(c, 500, "down", <<>>)]
                /\ carts' = carts
           ELSE \E p \in DeleteOneCart(carts, sid) :
                    /\ carts' = p[1]
                    /\ req' = [req EXCEPT ![r] =
                                 Reply([c EXCEPT !.found = p[2]], 200, "none", <<>>)]
    /\ UNCHANGED <<cachedConnection, menu, orders>>
    /\ UNCHANGED client

(* ------------------------------ order routes --------------------------- *)
\* a check that lets an empty list through
ItemsMissingOnly(has, items) == ~has

\* !items || items.length === 0
ItemsMissing(has, items) == ~has \/ Len(items) = 0

\* an order constructed with the status of the body
NewOrderAsSent(id, items, status) ==
    [id |-> id, items |-> items, status |-> IF status = NoStatus THEN "pending" ELSE status]

\* new Order({ items, totalPrice, customerInfo, notes, status: 'pending' })
NewOrder(id, items, status) == [id |-> id, items |-> items, status |-> "pending"]

\* a handler that never deletes the Cart
HasSessionNever(sid) == FALSE

\* if (sessionId)
HasSession(sid) == sid # NoSession

\* POST /api/orders, up to the response or to Cart.findOneAndDelete: the
\* items check, then newOrder.save(), which validates the required
\* totalPrice before it writes
OrderCreate(r, has, items, price, status, sid, up) ==
    /\ req[r].pc = "ready"
    /\ Unread = {}
    /\ LET c == Call("orderCreate", sid, has, items, price, status, NoId)
       IN  IF ItemsMissing(has, items)
           THEN /\ req' = [req EXCEPT ![r] = Reply(c, 400, "empty", <<>>)]
                /\ orders' = orders
           ELSE IF ~price
           THEN /\ req' = [req EXCEPT ![r] = Reply(c, 400, "validation", <<>>)]
                /\ orders' = orders
           ELSE IF ~up
           THEN /\ req' = [req EXCEPT ![r] = Reply(c, 400, "down", <<>>)]
                /\ orders' = orders
           ELSE /\ Cardinality(orders) < MaxOrders
                /\ OrderIds \ OrderIdsInUse # {}
                /\ LET o == NewOrder(Least(OrderIds \ OrderIdsInUse), items, status)
                   IN  /\ orders' = orders \cup {o}
                       /\ req' = [req EXCEPT ![r] =
                                    IF HasSession(sid)
                                    THEN [c EXCEPT !.pc = "cartdel", !.doc = o.id, !.out = <<o>>]
                                    ELSE Reply([c EXCEPT !.doc = o.id], 201, "none", <<o>>)]
    /\ UNCHANGED <<cachedConnection, menu, carts>>
    /\ UNCHANGED client

\* await Cart.findOneAndDelete({ sessionId }) of the order-create route and
\* the response; when it throws, the catch of the whole handler answers
OrderCartDelete(r, up) ==
    /\ req[r].pc = "cartdel"
    /\ Unread = {}
    /\ LET c == req[r]
       IN  IF ~up
           THEN /\ req' = [req EXCEPT ![r] = Reply(c, 400, "down", <<>>)]
                /\ carts' = carts
           ELSE \E p \in DeleteOneCart(carts, c.sid) :
                    /\ carts' = p[1]
                    /\ req' = [req EXCEPT ![r] =
                                 Reply([c EXCEPT !.found = p[2]], 201, "none", c.out)]
    /\ UNCHANGED <<cachedConnection, menu, orders>>
    /\ UNCHANGED client

\* an update that refuses to leave delivered and cancelled
PatchedOrderGuarded(o, status) ==
    IF o.status \in {"delivered", "cancelled"} THEN o ELSE [o EXCEPT !.status = status]

\* Order.findByIdAndUpdate(id, { status }, { new: true }) on the order found
PatchedOrder(o, status) == [o EXCEPT !.status = status]

\* the status of a patch that updated no order: the cast of a malformed
\* identifier throws into the catch (400), a null result is NotFound
PatchMissCode(id) == IF id = BadId THEN 400 ELSE 404

\* PATCH /api/orders/:id/status
OrderPatch(r, id, status, up) ==
    /\ req[r].pc = "ready"
    /\ Unread = {}
    /\ LET c == Call("orderPatch", NoSession, FALSE, <<>>, FALSE, status, id)
           hit == {o \in orders : o.id = id}
       IN  IF status \notin validStatuses
           THEN /\ req' = [req EXCEPT ![r] = Reply(c, 400, "status", <<>>)]
                /\ orders' = orders
           ELSE IF id # BadId /\ ~up
           THEN /\ req' = [req EXCEPT ![r] = Reply(c, 400, "down", <<>>)]
                /\ orders' = orders
           ELSE IF hit = {}
           THEN /\ req' = [req EXCEPT ![r] =
                             Reply(c, PatchMissCode(id), IF id = BadId THEN "cast" ELSE "none", <<>>)]
                /\ orders' = orders
           ELSE \E o \in hit :
                    /\ orders' = (orders \ {o}) \cup {PatchedOrder(o, status)}
                    /\ req' = [req EXCEPT ![r] =
                                 Reply([c EXCEPT !.doc = o.id], 200, "none", <<PatchedOrder(o, status)>>)]
    /\ UNCHANGED <<cachedConnection, menu, carts>>
    /\ UNCHANGED client

\* a delete that answers success when it removed nothing
DeleteMissCodeOk(id) == IF id = BadId THEN 500 ELSE 200

\* the status of a MenuItem / Order delete that removed nothing: the cast of
\* a malformed identifier throws into the catch (500), a null result is
\* NotFound
DeleteMissCode(id) == IF id = BadId THEN 500 ELSE 404

\* DELETE /api/orders/:id
OrderDelete(r, id, up) ==
    /\ req[r].pc = "ready"
    /\ Unread = {}
    /\ LET c == Call("orderDelete", NoSession, FALSE, <<>>, FALSE, NoStatus, id)
           hit == {o \in orders : o.id = id}
       IN  IF id # BadId /\ ~up
           THEN /\ req' = [req EXCEPT ![r] = Reply(c, 500, "down", <<>>)]
                /\ orders' = orders
           ELSE IF hit = {}
           THEN /\ req' = [req EXCEPT ![r] =
                             Reply(c, DeleteMissCode(id), IF id = BadId THEN "cast" ELSE "none", <<>>)]
                /\ orders' = orders
           ELSE /\ orders' = orders \ hit
                /\ req' = [req EXCEPT ![r] = Reply([c EXCEPT !.doc = id], 200, "none", <<>>)]
    /\ UNCHANGED <<cachedConnection, menu, carts>>
    /\ UNCHANGED client

(* ------------------------------ menu routes ---------------------------- *)
\* new MenuItem(req.body): available is the body's value, true by default
NewMenuItem(id, available) == [id |-> id, name |-> BodyName, available |-> available]

\* the documents stored by menu creates
Created == {m \in menu : m.id \in MenuIds}

\* POST /api/menu: valid says whether the body carries the required name,
\* description and price
MenuCreate(r, valid, available, up) ==
    /\ req[r].pc = "ready"
    /\ Unread = {}
    /\ LET c == Call("menuCreate", NoSession, valid, <<>>, FALSE, NoStatus, NoId)
       IN  IF ~valid
           THEN /\ req' = [req EXCEPT ![r] = Reply(c, 400, "validation", <<>>)]
                /\ menu' = menu
           ELSE IF ~up
           THEN /\ req' = [req EXCEPT ![r] = Reply(c, 400, "down", <<>>)]
                /\ menu' = menu
           ELSE /\ Cardinality(Created) < MaxMenu
                /\ MenuIds \ MenuIdsInUse # {}
                /\ LET m == NewMenuItem(Least(MenuIds \ MenuIdsInUse), available)
                   IN  /\ menu' = menu \cup {m}
                       /\ req' = [req EXCEPT ![r] = Reply([c EXCEPT !.doc = m.id], 201, "none", <<m>>)]
    /\ UNCHANGED <<cachedConnection, carts, orders>>
    /\ UNCHANGED client

\* DELETE /api/menu/:id
MenuDelete(r, id, up) ==
    /\ req[r].pc = "ready"
    /\ Unread = {}
    /\ LET c == Call("menuDelete", NoSession, FALSE, <<>>, FALSE, NoStatus, id)
           hit == {m \in menu : m.id = id}
       IN  IF id # BadId /\ ~up
           THEN /\ req' = [req EXCEPT ![r] = Reply(c, 500, "down", <<>>)]
                /\ menu' = menu
           ELSE IF hit = {}
           THEN /\ req' = [req EXCEPT ![r] =
                             Reply(c, DeleteMissCode(id), IF id = BadId THEN "cast" ELSE "none", <<>>)]
                /\ menu' = menu
           ELSE /\ menu' = menu \ hit
                /\ req' = [req EXCEPT ![r] = Reply([c EXCEPT !.doc = id], 200, "none", <<>>)]
    /\ UNCHANGED <<cachedConnection, carts, orders>>
    /\ UNCHANGED client

\* a query result as the array the response carries, in identifier order
RECURSIVE ListOf(_)
ListOf(S) ==
    IF S = {} THEN <<>>
    ELSE LET m == CHOOSE x \in S : \A y \in S : x.id <= y.id
         IN  <<m>> \o ListOf(S \ {m})

\* a query that matches every document
AvailableAny(ms) == ms

\* MenuItem.find({ available: true })
AvailableOnly(ms) == {m \in ms : m.available}

\* GET /api/menu
MenuList(r, up) ==
    /\ req[r].pc = "ready"
    /\ Unread = {}
    /\ LET c == Call("menuList", NoSession, FALSE, <<>>, FALSE, NoStatus, NoId)
       IN  IF ~up
           THEN req' = [req EXCEPT ![r] = Reply(c, 500, "down", <<>>)]
           ELSE req' = [req EXCEPT ![r] = Reply(c, 200, "none", ListOf(AvailableOnly(menu)))]
    /\ UNCHANGED <<cachedConnection, menu, carts, orders>>
    /\ UNCHANGED client

\* MenuItem.findByIdAndUpdate(id, req.body, { new: true }) on the item found:
\* has says whether the body carries available
UpdatedItem(m, has, available) == IF has THEN [m EXCEPT !.available = available] ELSE m

\* PUT /api/menu/:id
MenuUpdate(r, id, has, available, up) ==
    /\ req[r].pc = "ready"
    /\ Unread = {}
    /\ LET c == Call("menuUpdate", NoSession, has, <<>>, FALSE, NoStatus, id)
           hit == {m \in menu : m.id = id}
       IN  IF id # BadId /\ ~up
           THEN /\ req' = [req EXCEPT ![r] = Reply(c, 400, "down", <<>>)]
                /\ menu' = menu
           ELSE IF hit = {}
           THEN /\ req' = [req EXCEPT ![r] =
                             Reply(c, PatchMissCode(id), IF id = BadId THEN "cast" ELSE "none", <<>>)]
                /\ menu' = menu
           ELSE \E m \in hit :
                    /\ menu' = (menu \ {m}) \cup {UpdatedItem(m, has, available)}
                    /\ req' = [req EXCEPT ![r] =
                                 Reply([c EXCEPT !.doc = id], 200, "none", <<UpdatedItem(m, has, available)>>)]
    /\ UNCHANGED <<cachedConnection, carts, orders>>
    /\ UNCHANGED client

\* the k-th least of a set of identifiers
RECURSIVE Nth(_, _)
Nth(S, k) == IF k = 1 THEN Least(S) ELSE Nth(S \ {Least(S)}, k - 1)

\* the documents MenuItem.insertMany(menuItems) stores, with fresh identifiers
SeedItem(free, k) == [id |-> Nth(free, k), name |-> SeedNames[k], available |-> TRUE]
SeedItems(free) == {SeedItem(free, k) : k \in 1..Len(SeedNames)}

\* GET /api/seed, up to insertMany: await MenuItem.deleteMany({})
SeedWipe(r, up) ==
    /\ req[r].pc = "ready"
    /\ Unread = {}
    /\ LET c == Call("seed", NoSession, FALSE, <<>>, FALSE, NoStatus, NoId)
       IN  IF ~up
           THEN /\ req' = [req EXCEPT ![r] = Reply(c, 500, "down", <<>>)]
                /\ menu' = menu
           ELSE /\ req' = [req EXCEPT ![r] = [c EXCEPT !.pc = "fill"]]
                /\ menu' = {}
    /\ UNCHANGED <<cachedConnection, carts, orders>>
    /\ UNCHANGED client

\* await MenuItem.insertMany(menuItems) of the seed route, and the response
SeedFill(r, up) ==
    /\ req[r].pc = "fill"
    /\ Unread = {}
    /\ LET c == req[r]
           free == SeedIds \ MenuIdsInUse
       IN  IF ~up
           THEN \* an ordered insertMany stops at the first insert that fails
                /\ Cardinality(free) >= Len(SeedNames)
                /\ \E n \in 0..(Len(SeedNames) - 1) :
                       menu' = menu \cup {SeedItem(free, k) : k \in 1..n}
                /\ req' = [req EXCEPT ![r] = Reply(c, 500, "down", <<>>)]
           ELSE /\ Cardinality(free) >= Len(SeedNames)
                /\ menu' = menu \cup SeedItems(free)
                /\ req' = [req EXCEPT ![r] = Reply(c, 200, "none", <<>>)]
    /\ UNCHANGED <<cachedConnection, carts, orders>>
    /\ UNCHANGED client

(* ------------------------------ the client ----------------------------- *)
\* getSessionId(): the identifier kept in localStorage
ClientSession == "s1"

\* an entry of the local cart; the price copied from the menu item is left out
Entry(name, quantity) == [name |-> name, quantity |-> quantity]

InCart(c, name) == \E i \in DOMAIN c : c[i].name = name

\* an addToCart that always appends an entry
AddedCartAppending(c, name) == Append(c, Entry(name, 1))

\* updatedCart of addToCart
AddedCart(c, name) ==
    IF InCart(c, name)
    THEN [i \in DOMAIN c |->
            IF c[i].name = name THEN [c[i] EXCEPT !.quantity = c[i].quantity + 1] ELSE c[i]]
    ELSE Append(c, Entry(name, 1))

Max0(n) == IF n < 0 THEN 0 ELSE n

\* updatedCart of updateQuantity: map with Math.max(0, ...), then filter
UpdatedCart(c, name, change) ==
    LET mapped == [i \in DOMAIN c |->
                     IF c[i].name = name
                     THEN [c[i] EXCEPT !.quantity = Max0(c[i].quantity + change)]
                     ELSE c[i]]
        Kept(e) == e.quantity > 0
    IN  SelectSeq(mapped, Kept)

\* updatedCart of removeFromCart
RemovedCart(c, name) ==
    LET Other(e) == e.name # name
    IN  SelectSeq(c, Other)

\* fetch(...) on slot r: the request leaves the client
Fetch(r, op, items) ==
    /\ net[r] = NoFetch
    /\ req[r].pc = "idle"
    /\ net' = [net EXCEPT ![r] = [op |-> op, items |-> items]]

\* setCart(updatedCart); syncCartToBackend(updatedCart)
SetAndSync(r, updatedCart) ==
    /\ cart' = updatedCart
    /\ Fetch(r, "push", updatedCart)
    /\ UNCHANGED <<cachedConnection, menu, carts, orders, req, alert, pushFailed>>

AddToCart(r, name) ==
    /\ \A i \in DOMAIN cart : cart[i].name = name => cart[i].quantity < MaxQty
    /\ SetAndSync(r, AddedCart(cart, name))

\* the + and - buttons of an entry of the cart
UpdateQuantity(r, name, change) ==
    /\ InCart(cart, name)
    /\ \A i \in DOMAIN cart : cart[i].name = name => cart[i].quantity + change <= MaxQty
    /\ SetAndSync(r, UpdatedCart(cart, name, change))

RemoveFromCart(r, name) ==
    /\ InCart(cart, name)
    /\ SetAndSync(r, RemovedCart(cart, name))

\* clearCart, confirmed
ClearCart(r) ==
    /\ cart' = <<>>
    /\ Fetch(r, "clear", <<>>)
    /\ UNCHANGED <<cachedConnection, menu, carts, orders, req, alert, pushFailed>>

\* a checkout that posts whatever the cart holds
CartIsEmptyNever(c) == FALSE

\* cart.length === 0
CartIsEmpty(c) == Len(c) = 0

\* checkout, up to the fetch it awaits
Checkout(r) ==
    IF CartIsEmpty(cart)
    THEN UNCHANGED vars
    ELSE /\ Fetch(r, "order", cart)
         /\ UNCHANGED <<cachedConnection, menu, carts, orders, req, cart, alert, pushFailed>>

\* a checkout that clears the cart whatever the response
ResponseOkAlways(code) == TRUE

\* response.ok
ResponseOk(code) == code >= 200 /\ code <= 299

\* the fetch on slot r returns with the response of the server.  checkout
\* clears the cart and thanks when the response is ok, and alerts the failure
\* otherwise; syncCartToBackend and clearCart do not look at the response
FetchReturns(r) ==
    /\ net[r] # NoFetch
    /\ req[r].pc = "done"
    /\ cart' = IF net[r].op = "order" /\ ResponseOk(req[r].code) THEN <<>> ELSE cart
    /\ alert' = IF net[r].op # "order" THEN alert
                ELSE IF ResponseOk(req[r].code) THEN "thanks" ELSE "failed"
    /\ pushFailed' = (pushFailed \/ (net[r].op = "push" /\ req[r].code \notin 200..299))
    /\ net' = [net EXCEPT ![r] = NoFetch]
    /\ req' = [req EXCEPT ![r] = Idle]
    /\ UNCHANGED <<cachedConnection, menu, carts, orders>>

\* the fetch on slot r rejects: the request did not reach the server, or its
\* response did not reach the client.  Every caller catches and logs, and
\* checkout alerts the failure
FetchRejects(r) ==
    /\ net[r] # NoFetch
    /\ req[r].pc \in {"idle", "done"}
    /\ alert' = IF net[r].op = "order" THEN "failed" ELSE alert
    /\ pushFailed' = (pushFailed \/ net[r].op = "push")
    /\ net' = [net EXCEPT ![r] = NoFetch]
    /\ req' = [req EXCEPT ![r] = Idle]
    /\ UNCHANGED <<cachedConnection, menu, carts, orders, cart>>

\* the server of a client taken alone: it answers the request on slot r with
\* some status
Answer(r, code) ==
    /\ net[r] # NoFetch
    /\ req[r].pc = "idle"
    /\ req' = [req EXCEPT ![r] = Reply(Idle, code, "none", <<>>)]
    /\ UNCHANGED <<cachedConnection, menu, carts, orders>>
    /\ UNCHANGED client

(* --------------------------- specifications ---------------------------- *)
\* the cart routes and the placing of one-item orders, with requests in
\* flight together
CartNext ==
    \E r \in Reqs, up \in BOOLEAN :
        \/ Middleware(r, up)
        \/ \E sid \in Sessions : CartGetFind(r, sid, up)
        \/ CartGetSave(r, up)
        \/ \E sid \in Sessions, items \in ItemLists : CartPostFind(r, sid, items, up)
        \/ CartPostSave(r, up)
        \/ \E sid \in Sessions : CartDelete(r, sid, up)
        \/ \E x \in Items, sid \in Sessions \cup {NoSession} :
              OrderCreate(r, TRUE, <<x>>, TRUE, NoStatus, sid, up)
        \/ OrderCartDelete(r, up)

\* the order routes.  Each of these handlers awaits one store operation, so
\* requests in flight together are served in some order, one after the other
OrderNext ==
    \E r \in OneReq, up \in BOOLEAN :
        \/ Middleware(r, up)
        \/ \E items \in ItemLists \ {<<>>}, status \in CreateStatuses :
              OrderCreate(r, TRUE, items, TRUE, status, NoSession, up)
        \/ \E id \in OrderIds \cup {BadId}, status \in BodyStatuses : OrderPatch(r, id, status, up)
        \/ \E id \in OrderIds \cup {BadId} : OrderDelete(r, id, up)

\* the routes that fill and empty the three collections, with every body an
\* order-create can carry, served one request after the other
SeqNext ==
    \E r \in OneReq, up \in BOOLEAN :
        \/ Middleware(r, up)
        \/ \E valid \in BOOLEAN, available \in BOOLEAN : MenuCreate(r, valid, available, up)
        \/ \E id \in MenuIds \cup {BadId} : MenuDelete(r, id, up)
        \/ \E has \in BOOLEAN, items \in ItemLists, price \in BOOLEAN,
              status \in CreateStatuses, sid \in Sessions \cup {NoSession} :
              (has \/ items = <<>>) /\ OrderCreate(r, has, items, price, status, sid, up)
        \/ OrderCartDelete(r, up)
        \/ \E id \in OrderIds \cup {BadId} : OrderDelete(r, id, up)
        \/ \E sid \in Sessions, items \in ItemLists : CartPostFind(r, sid, items, up)
        \/ CartPostSave(r, up)
        \/ \E sid \in Sessions : CartDelete(r, sid, up)

\* the menu routes, served one request after the other
MenuNext ==
    \E r \in OneReq, up \in BOOLEAN :
        \/ Middleware(r, up)
        \/ \E valid \in BOOLEAN, available \in BOOLEAN : MenuCreate(r, valid, available, up)
        \/ \E id \in MenuIds \cup SeedIds \cup {BadId}, has \in BOOLEAN, available \in BOOLEAN :
              (has \/ available) /\ MenuUpdate(r, id, has, available, up)
        \/ \E id \in MenuIds \cup SeedIds \cup {BadId} : MenuDelete(r, id, up)
        \/ SeedWipe(r, up)
        \/ SeedFill(r, up)
        \/ MenuList(r, up)

\* seed requests in flight together, over a menu that creates have filled
SeedNext ==
    \E r \in Reqs, up \in BOOLEAN :
        \/ Middleware(r, up)
        \/ \E available \in BOOLEAN : MenuCreate(r, TRUE, available, up)
        \/ SeedWipe(r, up)
        \/ SeedFill(r, up)
        \/ MenuList(r, up)

\* the client and the routes it calls
ClientNext ==
    \E r \in Reqs, up \in BOOLEAN :
        \/ \E name \in Items : AddToCart(r, name)
        \/ \E name \in Items, change \in {0 - 1, 1} : UpdateQuantity(r, name, change)
        \/ \E name \in Items : RemoveFromCart(r, name)
        \/ ClearCart(r)
        \/ Checkout(r)
        \/ FetchReturns(r)
        \/ FetchRejects(r)
        \/ net[r] # NoFetch /\ Arrive(r)
        \/ ConnectSettles(r, up)
        \/ net[r].op = "push" /\ CartPostFind(r, ClientSession, net[r].items, up)
        \/ CartPostSave(r, up)
        \/ net[r].op = "clear" /\ CartDelete(r, ClientSession, up)
        \/ net[r].op = "order"
              /\ OrderCreate(r, TRUE, net[r].items, TRUE, NoStatus, ClientSession, up)
        \/ OrderCartDelete(r, up)

\* the mutations of the local cart and the route their pushes call
SyncNext ==
    \E r \in Reqs, up \in BOOLEAN :
        \/ \E name \in Items : AddToCart(r, name)
        \/ \E name \in Items, change \in {0 - 1, 1} : UpdateQuantity(r, name, change)
        \/ \E name \in Items : RemoveFromCart(r, name)
        \/ FetchReturns(r)
        \/ FetchRejects(r)
        \/ net[r] # NoFetch /\ Arrive(r)
        \/ ConnectSettles(r, up)
        \/ net[r].op = "push" /\ CartPostFind(r, ClientSession, net[r].items, up)
        \/ CartPostSave(r, up)

\* the client taken alone, whatever the server answers
LocalNext ==
    \E r \in Reqs :
        \/ \E name \in Names : AddToCart(r, name)
        \/ \E name \in Names, change \in {0 - 1, 1} : UpdateQuantity(r, name, change)
        \/ \E name \in Names : RemoveFromCart(r, name)
        \/ ClearCart(r)
        \/ Checkout(r)
        \/ FetchReturns(r)
        \/ FetchRejects(r)
        \/ \E code \in {200, 201, 400, 500} : Answer(r, code)

\* the client and every route
Next == CartNext \/ OrderNext \/ SeqNext \/ MenuNext \/ SeedNext \/ ClientNext \/ SyncNext
            \/ LocalNext

Spec == Init /\ [][Next]_vars
CartSpec == Init /\ [][CartNext]_vars
OrderSpec == Init /\ [][OrderNext]_vars
SeqSpec == Init /\ [][SeqNext]_vars
MenuSpec == Init /\ [][MenuNext]_vars
SeedSpec == Init /\ [][SeedNext]_vars
ClientSpec == Init /\ [][ClientNext]_vars
SyncSpec == Init /\ [][SyncNext]_vars
LocalSpec == Init /\ [][LocalNext]_vars

(* ------------------------------ properties ----------------------------- *)
\* the enum as the specification states it
StatedStatuses ==
    {"pending", "confirmed", "preparing", "ready", "delivered", "cancelled"}

\* request r takes its first handler step on route kind
Enters(r, kind) == req[r].pc = "ready" /\ req'[r].kind = kind
\* request r takes a handler step on route kind
Steps(r, kind) == req'[r].kind = kind /\ req'[r] # req[r]
\* request r is answered in this step
Answered(r) == req[r].pc # "done" /\ req'[r].pc = "done"

Without(cs, sid) == {d \in cs : d.sessionId # sid}

\* C1: an order-create whose items are missing or empty is answered 400 by
\* its handler, and the Order and the Cart collection are as before,
\* whatever totalPrice, status and sessionId the body carries.
C1_EmptyOrderRejected ==
    [][\A r \in Reqs :
         (Enters(r, "orderCreate") /\ (~req'[r].has \/ req'[r].items = <<>>))
            => /\ req'[r].pc = "done"
               /\ req'[r].code = 400
               /\ orders' = orders
               /\ carts' = carts]_vars

\* an order-create with an empty items list, a totalPrice, a status and the
\* sessionId of a stored Cart has been answered 400
C1_Witness ==
    \E r \in Reqs :
        /\ req[r].pc = "done" /\ req[r].kind = "orderCreate"
        /\ req[r].has /\ req[r].items = <<>> /\ req[r].price
        /\ req[r].status = "delivered"
        /\ req[r].code = 400
        /\ CartsOf(carts, req[r].sid) # {}

\* C2: an order-create answered 201 with a sessionId has removed exactly the
\* Cart of that session, one without a sessionId changes no Cart, and no
\* other step of an order-create changes any Cart.
C2_OrderRemovesOwnCart ==
    [][\A r \in Reqs :
         Steps(r, "orderCreate") =>
            IF Answered(r) /\ req'[r].code = 201 /\ req'[r].sid # NoSession
            THEN carts' = Without(carts, req'[r].sid)
            ELSE carts' = carts]_vars

\* an order for session s1 has been answered 201, the Cart it found for s1 is
\* gone and the Cart of s2 is still stored
C2_Witness ==
    \E r \in Reqs :
        /\ req[r].pc = "done" /\ req[r].kind = "orderCreate"
        /\ req[r].code = 201 /\ req[r].sid = "s1" /\ req[r].found # NoId
        /\ CartsOf(carts, "s1") = {}
        /\ CartsOf(carts, "s2") # {}

\* C3: an order-create that has stored its order is answered 201 with the
\* stored order, also when the deletion of the Cart failed.
C3_CartDeleteFailureHidden ==
    \A r \in Reqs :
        (req[r].pc = "done" /\ req[r].kind = "orderCreate" /\ req[r].doc # NoId)
            => req[r].code = 201 /\ \E o \in orders : req[r].out = <<o>>

\* C4: the Cart collection holds at most one Cart per sessionId.
C4_OneCartPerSession ==
    \A d1 \in carts, d2 \in carts : d1.sessionId = d2.sessionId => d1 = d2

\* the store has rejected the insert of a request that found no Cart,
\* because another request had stored the session's Cart since
C4_Witness ==
    \E r \in Reqs :
        /\ req[r].pc = "done" /\ req[r].kind \in {"cartGet", "cartPost"}
        /\ req[r].err = "duplicate"
        /\ CartsOf(carts, req[r].sid) # {}

\* C5 as stated: a cart-post whose save the store executes always leaves the
\* session's Cart with exactly the posted items.
C5_PostAlwaysReplaces ==
    [][\A r \in Reqs :
         (Steps(r, "cartPost") /\ req[r].pc = "save" /\ req'[r].err # "down")
            => {d.items : d \in CartsOf(carts', req[r].sid)} = {req[r].items}]_vars

\* C5: a cart-post answered 200 leaves the session's Cart with exactly the
\* posted items, whether or not a Cart existed and whatever it held, and
\* changes no other Cart; a cart-post answered otherwise is answered 400
\* (its insert was rejected, the Cart it found was deleted before its save,
\* or the store failed) and changes no Cart.
C5_PostReplacesOnSuccess ==
    [][\A r \in Reqs :
         Steps(r, "cartPost") =>
            IF Answered(r) /\ req'[r].code = 200
            THEN /\ \E d \in carts' :
                       /\ CartsOf(carts', req'[r].sid) = {d}
                       /\ d.items = req'[r].items
                 /\ Without(carts', req'[r].sid) = Without(carts, req'[r].sid)
                 /\ req'[r].out = req'[r].items
            ELSE /\ carts' = carts
                 /\ Answered(r) => req'[r].code = 400]_vars

\* a cart-post of [] that found a Cart has been answered 200 and the Cart is
\* empty
C5_Witness ==
    \E r \in Reqs :
        /\ req[r].pc = "done" /\ req[r].kind = "cartPost"
        /\ req[r].code = 200 /\ req[r].items = <<>> /\ req[r].found # NoId
        /\ \E d \in carts : d.id = req[r].found /\ d.items = <<>>

\* C6 as stated: a cart-get that found no Cart returns an empty items list
\* and persists a new Cart (when the store executes its insert).
C6_GetAlwaysCreates ==
    [][\A r \in Reqs :
         (Steps(r, "cartGet") /\ req[r].pc = "save" /\ req'[r].err # "down")
            => /\ req'[r].code = 200
               /\ req'[r].out = <<>>
               /\ \E d \in carts' \ carts : d.sessionId = req[r].sid]_vars

\* C6: a cart-get that finds a Cart returns its items and changes nothing; one
\* that finds none persists a new empty Cart for the session and returns an
\* empty list, unless the session's Cart was created since its find (or the
\* store failed): then it is answered 500 and changes nothing.  After a
\* cart-get answered 200 the session has exactly one Cart, so a repeated
\* cart-get finds it and creates no further Cart.
C6_GetIdempotent ==
    [][\A r \in Reqs :
         Steps(r, "cartGet") =>
            LET c == req'[r]
                before == CartsOf(carts, c.sid)
            IN  IF Answered(r) /\ c.code = 200
                THEN /\ \E d \in carts' : CartsOf(carts', c.sid) = {d} /\ c.out = d.items
                     /\ IF before # {}
                        THEN carts' = carts
                        ELSE /\ carts' = carts \cup {NewCart(c.doc, c.sid, <<>>)}
                             /\ c.out = <<>>
                ELSE /\ carts' = carts
                     /\ Answered(r) => c.code = 500
                     /\ ~Answered(r) => before = {}]_vars

\* a cart-get that found no Cart has stored a new one and returned an empty
\* list
C6_Witness ==
    \E r \in Reqs :
        /\ req[r].pc = "done" /\ req[r].kind = "cartGet"
        /\ req[r].code = 200 /\ req[r].found = NoId /\ req[r].out = <<>>
        /\ NewCart(req[r].doc, req[r].sid, <<>>) \in carts

\* C7: every Order that enters the collection has status pending, and so has
\* the order in the 201 response, whatever status the body carries.
C7_CreatedPending ==
    [][/\ \A o \in orders' :
            (\A p \in orders : p.id # o.id) => o.status = "pending"
       /\ \A r \in Reqs :
            (Steps(r, "orderCreate") /\ Answered(r) /\ req'[r].code = 201)
               => req'[r].out[1].status = "pending"]_vars

\* an order-create whose body carries status delivered has been answered 201
\* and its order is stored as pending
C7_Witness ==
    \E r \in Reqs :
        /\ req[r].pc = "done" /\ req[r].kind = "orderCreate"
        /\ req[r].status = "delivered" /\ req[r].code = 201
        /\ \E o \in orders : o.id = req[r].doc /\ o.status = "pending"

\* C8: a status patch whose status is outside the enum, or missing, is
\* answered 400 and changes no order, whether or not the order exists.
C8_BadStatusRejected ==
    [][\A r \in Reqs :
         (Enters(r, "orderPatch") /\ req'[r].status \notin StatedStatuses)
            => /\ req'[r].pc = "done"
               /\ req'[r].code = 400
               /\ orders' = orders]_vars

\* a patch of a stored order with a status outside the enum has been
\* answered 400
C8_Witness ==
    \E r \in Reqs :
        /\ req[r].pc = "done" /\ req[r].kind = "orderPatch"
        /\ req[r].status = "shipped" /\ req[r].code = 400
        /\ \E o \in orders : o.id = req[r].id /\ o.status # "shipped"

\* C9 as stated: a patch with a status of the enum that the store executes
\* sets the status of an existing order, whatever it was, and is answered
\* NotFound for an identifier with no order.
C9_PatchOrNotFound ==
    [][\A r \in Reqs :
         (Enters(r, "orderPatch") /\ req'[r].status \in StatedStatuses
                                  /\ req'[r].err # "down")
            => LET c == req'[r]
                   hit == {o \in orders : o.id = c.id}
               IN  IF hit # {}
                   THEN /\ c.code = 200
                        /\ orders' = (orders \ hit)
                                        \cup {[o EXCEPT !.status = c.status] : o \in hit}
                   ELSE /\ c.code = 404
                        /\ orders' = orders]_vars

\* C9: a patch with a status of the enum sets the status of an existing
\* order, whatever it was, and is answered 200; for a well-formed identifier
\* with no order it is answered 404, for a malformed identifier 400 (as when
\* the store fails), and in these cases no order changes.
C9_PatchUnguarded ==
    [][\A r \in Reqs :
         (Enters(r, "orderPatch") /\ req'[r].status \in StatedStatuses)
            => LET c == req'[r]
                   hit == {o \in orders : o.id = c.id}
               IN  /\ req'[r].pc = "done"
                   /\ IF c.err = "down"
                      THEN c.code = 400 /\ orders' = orders
                      ELSE IF hit # {}
                      THEN /\ c.code = 200
                           /\ orders' = (orders \ hit)
                                           \cup {[o EXCEPT !.status = c.status] : o \in hit}
                      ELSE /\ c.code = (IF c.id = BadId THEN 400 ELSE 404)
                           /\ orders' = orders]_vars

\* a patch to pending has been answered 200 and the order is stored as
\* pending
C9_Witness ==
    \E r \in Reqs :
        /\ req[r].pc = "done" /\ req[r].kind = "orderPatch"
        /\ req[r].status = "pending" /\ req[r].code = 200
        /\ req[r].out[1].status = "pending"
        /\ req[r].out[1] \in orders

\* C10 as stated: a MenuItem or Order delete by an identifier that matches
\* no document is answered 404 and changes nothing; a cart-delete is
\* answered 200, leaves the session without a Cart and changes nothing when
\* it had none (for the operations the store executes).
C10_DeleteMissing ==
    [][\A r \in Reqs :
         LET c == req'[r]
         IN  /\ (Enters(r, "menuDelete") /\ c.err # "down" /\ \A m \in menu : m.id # c.id)
                    => c.code = 404 /\ menu' = menu
             /\ (Enters(r, "orderDelete") /\ c.err # "down" /\ \A o \in orders : o.id # c.id)
                    => c.code = 404 /\ orders' = orders
             /\ (Enters(r, "cartDelete") /\ c.err # "down")
                    => /\ c.code = 200
                       /\ carts' = Without(carts, c.sid)]_vars

\* C10: a MenuItem or Order delete by a well-formed identifier that matches
\* no document is answered 404, by a malformed identifier 500, and changes
\* nothing; a cart-delete is answered 200 and leaves the session without a
\* Cart, so it changes nothing when the session had none and a second
\* cart-delete has the response and the effect of the first.
C10_DeleteMissingWellFormed ==
    [][\A r \in Reqs :
         LET c == req'[r]
             miss == IF c.id = BadId THEN 500 ELSE 404
         IN  /\ (Enters(r, "menuDelete") /\ c.err # "down" /\ \A m \in menu : m.id # c.id)
                    => c.code = miss /\ menu' = menu
             /\ (Enters(r, "orderDelete") /\ c.err # "down" /\ \A o \in orders : o.id # c.id)
                    => c.code = miss /\ orders' = orders
             /\ (Enters(r, "cartDelete") /\ c.err # "down")
                    => /\ c.code = 200
                       /\ carts' = Without(carts, c.sid)
             /\ (Enters(r, "menuDelete") \/ Enters(r, "orderDelete") \/ Enters(r, "cartDelete"))
                    => (c.err = "down" => c.code = 500 /\ UNCHANGED <<menu, orders, carts>>)]_vars

\* a cart-delete for a session without a Cart has been answered 200 while
\* the three collections hold documents
C10_Witness ==
    \E r \in Reqs :
        /\ req[r].pc = "done" /\ req[r].kind = "cartDelete"
        /\ req[r].found = NoId /\ req[r].code = 200
        /\ CartsOf(carts, req[r].sid) = {}
        /\ carts # {} /\ menu # {} /\ orders # {}

\* C11: a menu list that the store executes is answered 200 with exactly the
\* stored MenuItems whose available is true, each once, whatever creates,
\* updates, deletes and seeds ran before; it changes no MenuItem.
C11_ListAvailableOnly ==
    [][\A r \in Reqs :
         (Enters(r, "menuList") /\ req'[r].err # "down")
            => LET out == req'[r].out
               IN  /\ req'[r].code = 200
                   /\ {out[i] : i \in DOMAIN out} = {m \in menu : m.available}
                   /\ Len(out) = Cardinality({m \in menu : m.available})
                   /\ menu' = menu]_vars

\* a menu list has returned some items while the menu also holds a seeded
\* item and a created item that are not available
C11_Witness ==
    \E r \in Reqs :
        /\ req[r].pc = "done" /\ req[r].kind = "menuList" /\ req[r].code = 200
        /\ req[r].out # <<>>
        /\ \E m \in menu : ~m.available /\ m.id \in SeedIds
        /\ \E m \in menu : ~m.available /\ m.id \in MenuIds
        /\ \A i \in DOMAIN req[r].out : req[r].out[i] \in menu

\* the collection ms holds exactly the fixed items of the seed route, each
\* once and available
ExactlySeeded(ms) ==
    /\ Cardinality(ms) = Len(SeedNames)
    /\ {m.name : m \in ms} = {SeedNames[k] : k \in 1..Len(SeedNames)}
    /\ \A m \in ms : m.available

\* C16: when a seed request completes successfully, no other seed request is
\* in flight, every seed that ran before inserted all its items and no menu
\* create wrote since, the MenuItem collection holds exactly the 4 fixed
\* items, all available, also when seed requests ran concurrently.
C16_SeedExactlyFour ==
    [][\A r \in Reqs :
         (/\ Steps(r, "seed") /\ Answered(r) /\ req'[r].code = 200
          /\ \A q \in Reqs \ {r} : req[q].pc \in {"idle", "connecting", "ready"}
          /\ menu = {} \/ ExactlySeeded(menu))
            => ExactlySeeded(menu')]_vars

\* C13: the store connection is established once: a connect call resolves
\* successfully only while no handle is cached, so over every interleaving
\* of requests at most one connect call is made and succeeds.
C13_ConnectOnce ==
    [][\A r \in Reqs :
         (req[r].pc = "connecting" /\ req'[r].pc = "ready") => ~cachedConnection]_vars

\* C14: a request that fails because the store is unreachable is answered
\* 500 by the connection middleware, before any route handler has run, and
\* neither a collection nor the cached handle is changed.
C14_UnreachableBeforeHandler ==
    [][\A r \in Reqs :
         (Answered(r) /\ req'[r].err \in {"connect", "down"})
            => /\ req'[r].code = 500
               /\ req'[r].kind = "none"
               /\ UNCHANGED <<menu, carts, orders, cachedConnection>>]_vars

\* C12: checkout sends an order-create only from a cart that is not empty,
\* with the cart as its items, and leaves the cart as it is while it waits;
\* when its fetch ends, either the response is a success (a 2xx status)
\* and the cart is emptied, or the cart is left as it is and the failure is
\* alerted, which is what happens whenever the response is another status or
\* the fetch failed; nothing else changes the cart but a mutation of the user.
C12_CheckoutClearsOnSuccess ==
    [][/\ \A r \in Reqs :
            (net[r].op # "order" /\ net'[r].op = "order")
               => cart # <<>> /\ net'[r].items = cart /\ cart' = cart
       /\ \A r \in Reqs :
            (net[r].op = "order" /\ net'[r] = NoFetch)
               => \/ /\ req[r].pc = "done" /\ req[r].code \in 200..299
                     /\ cart' = <<>> /\ alert' = "thanks"
                  \/ cart' = cart /\ alert' = "failed"
       /\ cart' # cart
            => \/ \E r \in Reqs : net[r] = NoFetch /\ net'[r].op \in {"push", "clear"}
               \/ \E r \in Reqs : /\ net[r].op = "order" /\ net'[r] = NoFetch
                                  /\ req[r].pc = "done" /\ req[r].code \in 200..299]_vars

\* the order-create of a checkout has been answered 400 and the failure
\* alerted, and the cart still holds the two entries the checkout sent
C12_Witness ==
    /\ alert = "failed"
    /\ Len(cart) = 2
    /\ \A r \in Reqs : net[r] = NoFetch
    /\ \A r \in Reqs : req[r].pc = "idle"

\* the quantity of name in cart c, 0 when it has no entry
Qty(c, name) ==
    IF InCart(c, name) THEN c[CHOOSE i \in DOMAIN c : c[i].name = name].quantity ELSE 0

\* C18: after every operation of the client, every entry of the local cart
\* has quantity >= 1 and no two entries share a name; an operation that
\* pushes the cart (addToCart, updateQuantity by +1 or -1, removeFromCart)
\* changes the quantity of one name only, by +1, by -1 or to 0, so an entry
\* that reaches 0 is gone and an added name that is present gains exactly 1
\* and no entry; every other change of the cart empties it.
C18_CartWellFormed ==
    [][/\ \A i \in DOMAIN cart' : cart'[i].quantity >= 1
       /\ \A i \in DOMAIN cart', j \in DOMAIN cart' : cart'[i].name = cart'[j].name => i = j
       /\ (\E r \in Reqs : net[r] = NoFetch /\ net'[r].op = "push")
            => \E name \in Names :
                  /\ \A other \in Names \ {name} : Qty(cart', other) = Qty(cart, other)
                  /\ \/ Qty(cart', name) = Qty(cart, name) + 1
                     \/ Qty(cart, name) >= 1 /\ Qty(cart', name) = Qty(cart, name) - 1
                     \/ Qty(cart', name) = 0
                  /\ Len(cart') = Cardinality({n \in Names : Qty(cart', n) >= 1})
       /\ (cart' # cart /\ ~\E r \in Reqs : net[r] = NoFetch /\ net'[r].op = "push")
            => cart' = <<>>]_vars

\* after a checkout that was thanked, the cart holds two entries again, the
\* first with quantity 2 through an addToCart of its name
C18_Witness ==
    /\ alert = "thanks"
    /\ Len(cart) = 2
    /\ cart[1].quantity = 2 /\ cart[2].quantity = 1
    /\ cart[1].name # cart[2].name

\* the items the server holds for the client's session: those of its Cart,
\* none when it has no Cart
ServerItems ==
    IF CartsOf(carts, ClientSession) = {} THEN <<>>
    ELSE (CHOOSE d \in CartsOf(carts, ClientSession) : TRUE).items

\* C15: whenever every push of the cart issued so far has returned with a
\* success and no fetch of the client is outstanding, the items the server
\* holds for the session are the local cart.
C15_PushedCartAgrees ==
    (~pushFailed /\ \A r \in Reqs : net[r] = NoFetch) => ServerItems = cart

\* C17: once a checkout has been thanked, the local cart is empty and every
\* fetch of the client has returned, the server holds no Cart with items for
\* the client's session.
C17_ServerCartEmptied ==
    (alert = "thanks" /\ cart = <<>> /\ \A r \in Reqs : net[r] = NoFetch)
        => ServerItems = <<>>

====
